---- MODULE Spec2Model ----
(***************************************************************************)
(* Cursor handling of the ContentEditable editor of ai-writer.             *)
(*                                                                         *)
(*   src/src/utils/cursor.ts            offset <-> DOM position            *)
(*   src/src/hooks/useCursorPosition.ts the hook that saves / restores it  *)
(*   src/src/components/ui/Editor.tsx   the editor: effects and handlers   *)
(*   src/src/components/WritingStudio.tsx  content, statistics, buttons    *)
(*                                                                         *)
(* A text is a sequence of one-character strings.  The editor element's    *)
(* subtree is the sequence of its text nodes in document order (what the   *)
(* TreeWalker with SHOW_TEXT visits); a text node may be empty.  Node 0 is *)
(* the editor element itself, node k >= 1 is the k-th text node.           *)
(***************************************************************************)
EXTENDS Integers, Sequences, FiniteSets, TLC

VARIABLES
    leaves,         \* text nodes under the editor element, in document order
    ranges,         \* the ranges of window.getSelection(); rangeCount = Len(ranges)
    savedPosition,  \* savedPositionRef.current of useCursorPosition
    ret,            \* what the last call returned
    op,             \* the last call: its name, its argument and what it computed
    walk,           \* caret offsets of the current run of Ctrl+ArrowDown presses
    disabled,       \* the editor's disabled prop
    contentState,   \* WritingStudio: the content state, the editor's content prop
    wordCount,      \* WritingStudio: the wordCount state
    charCount,      \* WritingStudio: the charCount state
    cursorPosition, \* WritingStudio: the cursorPosition state
    mounted,        \* the editor is mounted (editorRef.current is the element)
    focused,        \* document.activeElement === editorRef.current
    isComposing,    \* Editor: the isComposing state
    frames,         \* pending requestAnimationFrame callbacks (each calls restoreCursor)
    timers,         \* pending setTimeout callbacks: the content.length each captured
    origin          \* history: the caret's offset before the first content update of
                    \* the pending restores, Null without them or without a caret

studio == <<contentState, wordCount, charCount, cursorPosition>>

editor == <<mounted, focused, isComposing, frames, timers, origin>>

vars == <<leaves, ranges, savedPosition, ret, op, walk, disabled, studio, editor>>

----------------------------------------------------------------------------
(* Bounds of the model *)

MaxLeaves == 3      \* text nodes in a tree
MaxLeafLen == 1     \* characters in one text node
MaxOver == 2        \* how far a requested offset may exceed the text length
MaxText == 7        \* characters of a text navigated by paragraph
MaxContent == 2     \* characters typed into the editor
MaxSample == 3      \* characters of the sample text that are inserted
MaxFrames == 2      \* pending requestAnimationFrame callbacks
MaxTimers == 1      \* pending setTimeout callbacks
MaxCount == 5       \* characters of a text whose words are counted
MaxWalk == 8        \* recorded presses of one run of Ctrl+ArrowDown

----------------------------------------------------------------------------
(* Texts and trees *)

LF == "\n"

Element == 0

Min(a, b) == IF a <= b THEN a ELSE b

Abs(a) == IF a < 0 THEN 0 - a ELSE a

\* All texts over the characters cs of length at most n.
TextsUpTo(cs, n) == UNION {[1..k -> cs] : k \in 0..n}

RECURSIVE Concat(_)
\* element.textContent: the text nodes' data joined in document order.
Concat(ls) == IF ls = <<>> THEN <<>> ELSE Head(ls) \o Concat(Tail(ls))

\* getTextContent(element) == element.textContent || ""
getTextContent(ls) == Concat(ls)

\* node.textContent?.length ?? 0
TextLength(ls, node) == IF node = Element THEN Len(Concat(ls)) ELSE Len(ls[node])

\* The length the DOM gives a node: child count of the element, data length of text.
DomLength(ls, node) == IF node = Element THEN Len(ls) ELSE Len(ls[node])

\* The boundary points of the subtree: <<node, offset>>.
Points(ls) ==
    {<<Element, k>> : k \in 0..Len(ls)}
        \cup UNION {{<<n, k>> : k \in 0..Len(ls[n])} : n \in 1..Len(ls)}

\* The place of a boundary point in document order: (element, k) lies between
\* the k-th text node and the next one.
Rank(ls, p) ==
    IF p[1] = Element
        THEN 2 * (Len(Concat(SubSeq(ls, 1, p[2]))) + p[2])
        ELSE 2 * (Len(Concat(SubSeq(ls, 1, p[1] - 1))) + p[1] - 1) + 1 + 2 * p[2]

\* A collapsed range (a caret) at a boundary point.
Caret(node, offset) == [sc |-> node, so |-> offset, ec |-> node, eo |-> offset]

\* The text a range from (element, 0) to the boundary point (node, offset) spans.
TextBefore(ls, node, offset) ==
    IF node = Element
        THEN Concat(SubSeq(ls, 1, offset))
        ELSE Concat(SubSeq(ls, 1, node - 1)) \o SubSeq(ls[node], 1, offset)

----------------------------------------------------------------------------
(* cursor.ts *)

Null == [kind |-> "null"]

Undefined == [kind |-> "undefined"]

CursorPosition(offset, node) == [kind |-> "position", offset |-> offset, node |-> node]

\* getCursorPosition reading the end of the range where the code reads its start.
getCursorPositionAtEnd(ls, rs) ==
    IF Len(rs) = 0
        THEN Null
        ELSE CursorPosition(Len(TextBefore(ls, rs[1].ec, rs[1].eo)), rs[1].ec)

\* getCursorPosition(element): null without a range, else the length of the text
\* between the start of the element and the start of the first range.
getCursorPosition(ls, rs) ==
    IF Len(rs) = 0
        THEN Null
        ELSE LET range == rs[1]
                 preRange == TextBefore(ls, range.sc, range.so)
             IN  CursorPosition(Len(preRange), range.sc)

RECURSIVE WalkPositionStrict(_, _, _, _)
\* WalkPosition with the test currentOffset + nodeLength > offset.
WalkPositionStrict(ls, offset, k, currentOffset) ==
    IF k > Len(ls)
        THEN [found |-> FALSE, node |-> Element, offset |-> 0]
        ELSE IF currentOffset + Len(ls[k]) > offset
                 THEN [found |-> TRUE, node |-> k, offset |-> offset - currentOffset]
                 ELSE WalkPositionStrict(ls, offset, k + 1, currentOffset + Len(ls[k]))

\* WalkPosition without the cumulative-length test: the first text node is taken.
WalkPositionFirst(ls, offset, k, currentOffset) ==
    IF k > Len(ls)
        THEN [found |-> FALSE, node |-> Element, offset |-> 0]
        ELSE [found |-> TRUE, node |-> k, offset |-> offset - currentOffset]

RECURSIVE WalkPosition(_, _, _, _)
\* The TreeWalker loop of setCursorPosition, from the k-th text node on.
WalkPosition(ls, offset, k, currentOffset) ==
    IF k > Len(ls)
        THEN [found |-> FALSE, node |-> Element, offset |-> 0]
        ELSE LET nodeLength == Len(ls[k])
             IN  IF currentOffset + nodeLength >= offset
                     THEN [found |-> TRUE, node |-> k, offset |-> offset - currentOffset]
                     ELSE WalkPosition(ls, offset, k + 1, currentOffset + nodeLength)

RECURSIVE WalkAtOffsetStrict(_, _, _, _)
\* WalkAtOffset with the test currentPos + nodeLength > targetOffset.
WalkAtOffsetStrict(ls, targetOffset, k, currentPos) ==
    IF k > Len(ls)
        THEN [found |-> FALSE, node |-> Element, offset |-> 0]
        ELSE IF currentPos + Len(ls[k]) > targetOffset
                 THEN [found |-> TRUE, node |-> k, offset |-> targetOffset - currentPos]
                 ELSE WalkAtOffsetStrict(ls, targetOffset, k + 1, currentPos + Len(ls[k]))

RECURSIVE WalkAtOffset(_, _, _, _)
\* The TreeWalker loop of setCursorAtOffset, from the k-th text node on.
WalkAtOffset(ls, targetOffset, k, currentPos) ==
    IF k > Len(ls)
        THEN [found |-> FALSE, node |-> Element, offset |-> 0]
        ELSE LET nodeLength == Len(ls[k])
             IN  IF currentPos + nodeLength >= targetOffset
                     THEN [found |-> TRUE, node |-> k, offset |-> targetOffset - currentPos]
                     ELSE WalkAtOffset(ls, targetOffset, k + 1, currentPos + nodeLength)

\* range.setStart(node, offset) throws IndexSizeError when the offset, taken as an
\* unsigned long, exceeds the node's length.
SetStartThrows(ls, node, offset) == offset < 0 \/ offset > DomLength(ls, node)

\* The node and offset setCursorPosition hands to range.setStart.
PositionTarget(ls, offset) ==
    LET w == WalkPosition(ls, offset, 1, 0)
        targetNode == IF w.found THEN w.node ELSE Element
        targetOffset == IF w.found THEN w.offset ELSE 0
    IN  [node |-> targetNode, offset |-> Min(targetOffset, TextLength(ls, targetNode))]

\* The outcome of a call that did not reach its try block.
NotApplied(rs) == [ranges |-> rs, threw |-> FALSE, warnings |-> 0, raised |-> FALSE]

\* The try block adding its range to the ranges the selection already holds.
TrySetStartKeepRanges(ls, rs, node, offset) ==
    IF SetStartThrows(ls, node, offset)
        THEN [ranges |-> rs, threw |-> TRUE, warnings |-> 1, raised |-> FALSE]
        ELSE [ranges |-> Append(rs, Caret(node, offset)), threw |-> FALSE,
              warnings |-> 0, raised |-> FALSE]

\* The statements of the try block without the try: the error leaves the function.
TrySetStartUncaught(ls, rs, node, offset) ==
    IF SetStartThrows(ls, node, offset)
        THEN [ranges |-> rs, threw |-> TRUE, warnings |-> 0, raised |-> TRUE]
        ELSE [ranges |-> <<Caret(node, offset)>>, threw |-> FALSE,
              warnings |-> 0, raised |-> FALSE]

\* The try block with selection.removeAllRanges() in front of range.setStart.
TrySetStartClearFirst(ls, rs, node, offset) ==
    IF SetStartThrows(ls, node, offset)
        THEN [ranges |-> <<>>, threw |-> TRUE, warnings |-> 1, raised |-> FALSE]
        ELSE [ranges |-> <<Caret(node, offset)>>, threw |-> FALSE,
              warnings |-> 0, raised |-> FALSE]

\* try { range.setStart; range.collapse(true); selection.removeAllRanges();
\* selection.addRange } catch { console.warn }: threw says that setStart threw,
\* warnings counts the console.warn calls, raised says that an error left the
\* function.
TrySetStart(ls, rs, node, offset) ==
    IF SetStartThrows(ls, node, offset)
        THEN [ranges |-> rs, threw |-> TRUE, warnings |-> 1, raised |-> FALSE]
        ELSE [ranges |-> <<Caret(node, offset)>>, threw |-> FALSE,
              warnings |-> 0, raised |-> FALSE]

\* setCursorPosition without the fallback to the element: nothing is done when
\* the walker finds no text node.
setCursorPositionIfFound(ls, rs, offset) ==
    LET w == WalkPosition(ls, offset, 1, 0)
    IN  IF ~w.found
            THEN NotApplied(rs)
            ELSE TrySetStart(ls, rs, w.node, Min(w.offset, TextLength(ls, w.node)))

\* The outcome of setCursorPosition(element, {offset}).
setCursorPosition(ls, rs, offset) ==
    LET t == PositionTarget(ls, offset)
    IN  TrySetStart(ls, rs, t.node, t.offset)

\* The outcome of setCursorAtOffset(element, targetOffset).
setCursorAtOffset(ls, rs, targetOffset) ==
    LET w == WalkAtOffset(ls, targetOffset, 1, 0)
    IN  IF ~w.found
            THEN NotApplied(rs)
            ELSE TrySetStart(ls, rs, w.node, Min(w.offset, TextLength(ls, w.node)))

\* What a walk hands to range.setStart: reached says that the try block is
\* entered, local is the offset before Math.min and clamped the offset after it.
Handed(ls, w, reached) ==
    [reached |-> reached, node |-> w.node, local |-> w.offset,
     clamped |-> Min(w.offset, TextLength(ls, w.node))]

\* saveCursorPosition turning "no selection" into offset 0.
saveCursorPositionOrZero(ls, rs) ==
    IF Len(rs) = 0 THEN CursorPosition(0, Element) ELSE getCursorPosition(ls, rs)

\* saveCursorPosition(element)
saveCursorPosition(ls, rs) == getCursorPosition(ls, rs)

\* restoreCursorPosition(element, position)
restoreCursorPosition(ls, rs, position) ==
    IF position # Null
        THEN setCursorPosition(ls, rs, position.offset)
        ELSE NotApplied(rs)

----------------------------------------------------------------------------
(* Editor.tsx: paragraph navigation *)

\* content[i] of a JavaScript string: undefined outside 0 .. length - 1.
At(content, i) == IF i >= 0 /\ i < Len(content) THEN content[i + 1] ELSE "undefined"

RECURSIVE ScanParagraphStartAhead(_, _)
\* ScanParagraphStart looking at content[i + 1] where the code looks at content[i - 1].
ScanParagraphStartAhead(content, i) ==
    IF i < 0
        THEN [paragraphStart |-> 0, foundParagraphBreak |-> FALSE]
        ELSE IF At(content, i) = LF /\ (i = 0 \/ At(content, i + 1) = LF)
                 THEN [paragraphStart |-> i + 1, foundParagraphBreak |-> TRUE]
                 ELSE ScanParagraphStartAhead(content, i - 1)

RECURSIVE ScanParagraphStart(_, _)
\* ArrowUp, first loop: for (i = currentOffset - 1; i >= 0; i--).
ScanParagraphStart(content, i) ==
    IF i < 0
        THEN [paragraphStart |-> 0, foundParagraphBreak |-> FALSE]
        ELSE IF At(content, i) = LF /\ (i = 0 \/ At(content, i - 1) = LF)
                 THEN [paragraphStart |-> i + 1, foundParagraphBreak |-> TRUE]
                 ELSE ScanParagraphStart(content, i - 1)

RECURSIVE ScanPreviousParagraphBelowZero(_, _, _)
\* ScanPreviousParagraph with targetPosition = i - 1 where the code has
\* targetPosition = 0.
ScanPreviousParagraphBelowZero(content, i, targetPosition) ==
    IF i < 0
        THEN targetPosition
        ELSE IF At(content, i) # LF
                 THEN i + 1
                 ELSE IF i = 0
                          THEN i - 1
                          ELSE ScanPreviousParagraphBelowZero(content, i - 1, targetPosition)

RECURSIVE ScanPreviousParagraph(_, _, _)
\* ArrowUp, second loop: for (i = paragraphStart - 2; i >= 0; i--).
ScanPreviousParagraph(content, i, targetPosition) ==
    IF i < 0
        THEN targetPosition
        ELSE IF At(content, i) # LF
                 THEN i + 1
                 ELSE IF i = 0 THEN 0 ELSE ScanPreviousParagraph(content, i - 1, targetPosition)

\* The targetPosition Ctrl+ArrowUp computes for the text and the caret offset.
ArrowUpTarget(content, currentOffset) ==
    LET s == ScanParagraphStart(content, currentOffset - 1)
        paragraphStart == IF s.foundParagraphBreak THEN s.paragraphStart ELSE 0
    IN  IF Abs(currentOffset - paragraphStart) <= 1
            THEN IF paragraphStart > 0
                     THEN ScanPreviousParagraph(content, paragraphStart - 2, paragraphStart)
                     ELSE Len(content)
            ELSE paragraphStart

RECURSIVE ScanParagraphEndAnyBreak(_, _)
\* ScanParagraphEnd stopping at every line break, single ones too.
ScanParagraphEndAnyBreak(content, i) ==
    IF i >= Len(content)
        THEN Len(content)
        ELSE IF At(content, i) = LF THEN i ELSE ScanParagraphEndAnyBreak(content, i + 1)

RECURSIVE ScanParagraphEnd(_, _)
\* ArrowDown, first loop: for (i = currentOffset; i < content.length; i++).
ScanParagraphEnd(content, i) ==
    IF i >= Len(content)
        THEN Len(content)
        ELSE IF At(content, i) = LF /\ (i = Len(content) - 1 \/ At(content, i + 1) = LF)
                 THEN i
                 ELSE ScanParagraphEnd(content, i + 1)

RECURSIVE ScanNextParagraph(_, _, _)
\* ArrowDown, second loop: for (i = paragraphEnd + 1; i < content.length; i++).
ScanNextParagraph(content, i, targetPosition) ==
    IF i >= Len(content)
        THEN targetPosition
        ELSE IF At(content, i - 1) = LF /\ At(content, i - 2) = LF
                 THEN i
                 ELSE IF At(content, i) # LF
                          THEN i
                          ELSE ScanNextParagraph(content, i + 1, targetPosition)

\* ArrowDownTarget that skips the break in one press: from a paragraph's inside
\* straight to the start of the next paragraph.
ArrowDownSkipBreak(content, currentOffset) ==
    LET paragraphEnd == ScanParagraphEnd(content, currentOffset)
    IN  IF paragraphEnd < Len(content)
            THEN ScanNextParagraph(content, paragraphEnd + 1, paragraphEnd)
            ELSE IF currentOffset = paragraphEnd THEN 0 ELSE paragraphEnd

\* ArrowDownTarget without the wrap-around: at the end of the text the target
\* is the end of the text.
ArrowDownNoWrap(content, currentOffset) ==
    LET paragraphEnd == ScanParagraphEnd(content, currentOffset)
    IN  IF currentOffset = paragraphEnd /\ paragraphEnd < Len(content)
            THEN ScanNextParagraph(content, paragraphEnd + 1, paragraphEnd)
            ELSE paragraphEnd

\* The targetPosition Ctrl+ArrowDown computes for the text and the caret offset.
ArrowDownTarget(content, currentOffset) ==
    LET paragraphEnd == ScanParagraphEnd(content, currentOffset)
    IN  IF currentOffset = paragraphEnd
            THEN IF paragraphEnd < Len(content)
                     THEN ScanNextParagraph(content, paragraphEnd + 1, paragraphEnd)
                     ELSE 0
            ELSE paragraphEnd

\* getCursorPosition(editorRef.current)?.offset ?? 0
OffsetOrZero(position) == IF position = Null THEN 0 ELSE position.offset

----------------------------------------------------------------------------
(* Initial states *)

\* Scenario B of the specification: the text nodes "abc" and "de".
ScenarioB == << <<"a", "b", "c">>, <<"d", "e">> >>

\* Scenario A of the specification: the text "Hello\n\nWorld".
ScenarioA == <<"H", "e", "l", "l", "o", LF, LF, "W", "o", "r", "l", "d">>

LeafTexts == TextsUpTo({"a"}, MaxLeafLen)

Trees == UNION {[1..n -> LeafTexts] : n \in 0..MaxLeaves} \cup {ScenarioB}

\* The selections a tree admits: none, a caret, a range from a start point to
\* the end of the element, or two ranges (the carets at the two ends of a
\* non-empty element).
Selections(ls) ==
    {<<>>}
        \cup (IF Len(ls) > 0 THEN {<<Caret(Element, 0), Caret(Element, Len(ls))>>} ELSE {})
        \cup {<<Caret(p[1], p[2])>> : p \in Points(ls)}
        \cup {<<[sc |-> p[1], so |-> p[2], ec |-> Element, eo |-> Len(ls)]>> :
                 p \in {x \in Points(ls) : Rank(ls, x) < Rank(ls, <<Element, Len(ls)>>)}}

\* The offsets a caller passes: in range, past the end, and negative; offset 9
\* of scenario B with its tree.
Offsets(ls) ==
    (0 - 1)..(Len(Concat(ls)) + MaxOver) \cup (IF ls = ScenarioB THEN {9} ELSE {})

\* What setTextContent leaves under the element: one text node, none for "".
TextNodes(content) == IF content = <<>> THEN <<>> ELSE <<content>>

\* The text nodes after Enter inserted the line break content[k] into a single
\* text node: range.insertNode splits the node and puts the "\n" node between
\* the halves (an empty half stays as an empty text node).
SplitAtBreak(content, k) ==
    <<SubSeq(content, 1, k - 1), <<content[k]>>, SubSeq(content, k + 1, Len(content))>>

NavTexts == TextsUpTo({"a", LF}, MaxText) \cup {ScenarioA}

NavTrees ==
    {TextNodes(t) : t \in NavTexts}
        \cup UNION {{SplitAtBreak(t, k) : k \in {i \in 1..Len(t) : t[i] = LF}} : t \in NavTexts}

\* useState("") , useState(null), useState(0), useState(0) of WritingStudio.
InitStudio ==
    /\ contentState = <<>>
    /\ wordCount = 0
    /\ charCount = 0
    /\ cursorPosition = Null

\* An editor without pending callbacks; useState(false) for isComposing.
InitEditor ==
    /\ isComposing = FALSE
    /\ frames = 0
    /\ timers = <<>>
    /\ origin = Null

Init ==
    /\ InitStudio /\ InitEditor /\ mounted = TRUE /\ focused = FALSE
    /\ leaves \in Trees
    /\ ranges \in Selections(leaves)
    /\ savedPosition = Null
    /\ ret = Undefined
    /\ op = [name |-> "init"]
    /\ walk = <<>>
    /\ disabled = FALSE

InitNav ==
    /\ InitStudio /\ InitEditor /\ mounted = TRUE /\ focused = TRUE
    /\ leaves \in NavTrees
    /\ ranges \in {<<>>} \cup {<<Caret(p[1], p[2])>> : p \in Points(leaves)}
    /\ savedPosition = Null
    /\ ret = Undefined
    /\ op = [name |-> "init"]
    /\ walk = <<>>
    /\ disabled \in BOOLEAN

----------------------------------------------------------------------------
(* Calls of cursor.ts and of the hook *)

\* setCursorPosition(element, {offset})
SetCursorPosition(offset) ==
    LET r == setCursorPosition(leaves, ranges, offset)
        w == WalkPosition(leaves, offset, 1, 0)
    IN  /\ ranges' = r.ranges
        /\ ret' = Undefined
        /\ op' = [name |-> "setCursorPosition", offset |-> offset, threw |-> r.threw,
                   warnings |-> r.warnings, raised |-> r.raised,
                   handed |-> Handed(leaves, w, TRUE)]
        /\ UNCHANGED <<leaves, savedPosition, walk, disabled, studio, editor>>

\* setCursorAtOffset(element, targetOffset)
SetCursorAtOffset(targetOffset) ==
    LET r == setCursorAtOffset(leaves, ranges, targetOffset)
        w == WalkAtOffset(leaves, targetOffset, 1, 0)
    IN  /\ ranges' = r.ranges
        /\ ret' = Undefined
        /\ op' = [name |-> "setCursorAtOffset", offset |-> targetOffset, threw |-> r.threw,
                   warnings |-> r.warnings, raised |-> r.raised,
                   handed |-> Handed(leaves, w, w.found)]
        /\ UNCHANGED <<leaves, savedPosition, walk, disabled, studio, editor>>

\* getCursorPosition(element)
GetCursorPosition ==
    /\ ret' = getCursorPosition(leaves, ranges)
    /\ op' = [name |-> "getCursorPosition"]
    /\ UNCHANGED <<leaves, ranges, savedPosition, walk, disabled, studio, editor>>

\* getCursor() of the hook (the element is mounted)
GetCursor ==
    /\ ret' = getCursorPosition(leaves, ranges)
    /\ op' = [name |-> "getCursor"]
    /\ UNCHANGED <<leaves, ranges, savedPosition, walk, disabled, studio, editor>>

\* saveCursor() of the hook
SaveCursor ==
    /\ savedPosition' = saveCursorPosition(leaves, ranges)
    /\ ret' = Undefined
    /\ op' = [name |-> "saveCursor"]
    /\ UNCHANGED <<leaves, ranges, walk, disabled, studio, editor>>

\* restoreCursor() of the hook
RestoreCursor ==
    LET r == restoreCursorPosition(leaves, ranges, savedPosition)
    IN  /\ ranges' = r.ranges
        /\ ret' = Undefined
        /\ op' = [name |-> "restoreCursor", threw |-> r.threw]
        /\ UNCHANGED <<leaves, savedPosition, walk, disabled, studio, editor>>

Next ==
    \/ \E offset \in Offsets(leaves) : SetCursorPosition(offset)
    \/ \E targetOffset \in Offsets(leaves) : SetCursorAtOffset(targetOffset)
    \/ GetCursorPosition
    \/ GetCursor
    \/ SaveCursor
    \/ RestoreCursor

Spec == Init /\ [][Next]_vars

----------------------------------------------------------------------------
(* Key presses of the editor *)

\* In the record op of a key press, stop is the index of the line break at which
\* the handler's first loop broke off, -1 when it ran to the end.

\* The run of Ctrl+ArrowDown presses extended by one press from offset a to b.
Extend(w, a, b) == IF w = <<>> \/ Len(w) > MaxWalk THEN <<a, b>> ELSE Append(w, b)

\* handleKeyDown, Ctrl/Meta + ArrowUp: nothing is done when the editor is
\* disabled or the selection has no range.
CtrlArrowUp ==
    /\ IF ~disabled /\ Len(ranges) > 0
           THEN LET content == getTextContent(leaves)
                    currentOffset == OffsetOrZero(getCursorPosition(leaves, ranges))
                    targetPosition == ArrowUpTarget(content, currentOffset)
                    scan == ScanParagraphStart(content, currentOffset - 1)
                    r == setCursorAtOffset(leaves, ranges, targetPosition)
                IN  /\ ranges' = r.ranges
                    /\ op' = [name |-> "ArrowUp", handled |-> TRUE, from |-> currentOffset,
                               target |-> targetPosition, threw |-> r.threw,
                               stop |-> IF scan.foundParagraphBreak
                                            THEN scan.paragraphStart - 1 ELSE 0 - 1]
           ELSE /\ ranges' = ranges
                /\ op' = [name |-> "ArrowUp", handled |-> FALSE]
    /\ walk' = <<>>
    /\ ret' = Undefined
    /\ UNCHANGED <<leaves, savedPosition, disabled, studio, editor>>

\* handleKeyDown, Ctrl/Meta + ArrowDown: nothing is done when the editor is
\* disabled or the selection has no range.
ArrowDownKey ==
    /\ IF ~disabled /\ Len(ranges) > 0
           THEN LET content == getTextContent(leaves)
                    currentOffset == OffsetOrZero(getCursorPosition(leaves, ranges))
                    targetPosition == ArrowDownTarget(content, currentOffset)
                    paragraphEnd == ScanParagraphEnd(content, currentOffset)
                    r == setCursorAtOffset(leaves, ranges, targetPosition)
                IN  /\ ranges' = r.ranges
                    /\ op' = [name |-> "ArrowDown", handled |-> TRUE, from |-> currentOffset,
                               target |-> targetPosition, threw |-> r.threw,
                               stop |-> IF paragraphEnd < Len(content)
                                            THEN paragraphEnd ELSE 0 - 1]
           ELSE /\ ranges' = ranges
                /\ op' = [name |-> "ArrowDown", handled |-> FALSE]
    /\ ret' = Undefined
    /\ UNCHANGED <<leaves, savedPosition, disabled, studio, editor>>

\* The key press, recorded in the run of presses.
CtrlArrowDown ==
    /\ ArrowDownKey
    /\ walk' = IF op'.handled
                   THEN Extend(walk, op'.from, OffsetOrZero(getCursorPosition(leaves, ranges')))
                   ELSE <<>>

NextNav ==
    \/ CtrlArrowUp
    \/ CtrlArrowDown

SpecNav == InitNav /\ [][NextNav]_vars

----------------------------------------------------------------------------
(* WritingStudio.tsx: statistics *)

\* The characters String.prototype.trim strips and \s matches, as far as the
\* texts of the model hold them.
WhiteSpace == {" ", LF}

RECURSIVE TrimStart(_)
TrimStart(t) == IF t # <<>> /\ Head(t) \in WhiteSpace THEN TrimStart(Tail(t)) ELSE t

RECURSIVE TrimEnd(_)
TrimEnd(t) ==
    IF t # <<>> /\ t[Len(t)] \in WhiteSpace THEN TrimEnd(SubSeq(t, 1, Len(t) - 1)) ELSE t

\* String.prototype.trim
Trim(t) == TrimEnd(TrimStart(t))

RECURSIVE SplitFrom(_, _, _)
\* t.split(/\s+/) from index i on, piece being the characters read since the
\* last match: a match is a maximal run of white space, and the characters
\* between two matches (none, at the start or the end of t) make one piece.
SplitFrom(t, i, piece) ==
    IF i > Len(t)
        THEN <<piece>>
        ELSE IF t[i] \in WhiteSpace
                 THEN IF i < Len(t) /\ t[i + 1] \in WhiteSpace
                          THEN SplitFrom(t, i + 1, piece)
                          ELSE <<piece>> \o SplitFrom(t, i + 1, <<>>)
                 ELSE SplitFrom(t, i + 1, Append(piece, t[i]))

\* String.prototype.split(/\s+/)
SplitWhiteSpace(t) == SplitFrom(t, 1, <<>>)

\* The word count without the trim.
WordsUntrimmed(newContent) ==
    IF newContent = <<>> THEN 0 ELSE Len(SplitWhiteSpace(newContent))

\* const words = newContent.trim() === "" ? 0 : newContent.trim().split(/\s+/).length
Words(newContent) ==
    IF Trim(newContent) = <<>> THEN 0 ELSE Len(SplitWhiteSpace(Trim(newContent)))

\* handleContentChange(newContent): the three states it sets.
handleContentChange(newContent) ==
    [content |-> newContent, wordCount |-> Words(newContent), charCount |-> Len(newContent)]

\* What the cursor-position line of the statistics panel shows.
Dash == [kind |-> "dash"]

Number(n) == [kind |-> "number", value |-> n]

\* The line showing 0 for an unknown position.
PositionShownOrZero(position) == Number(IF position = Null THEN 0 ELSE position.offset)

\* {cursorPosition?.offset ?? "\u2014"}
PositionShown(position) == IF position = Null THEN Dash ELSE Number(position.offset)

\* The text "Hello world test" of the unit test.
HelloWorldTest ==
    <<"H", "e", "l", "l", "o", " ", "w", "o", "r", "l", "d", " ", "t", "e", "s", "t">>

\* The contents handed to handleContentChange.
CountTexts == TextsUpTo({"a", " ", LF}, MaxCount) \cup {HelloWorldTest}

\* The editor reports newContent through onChange.
HandleContentChange(newContent) ==
    LET s == handleContentChange(newContent)
    IN  /\ contentState' = s.content
        /\ wordCount' = s.wordCount
        /\ charCount' = s.charCount
        /\ op' = [name |-> "handleContentChange", newContent |-> newContent]
        /\ UNCHANGED <<leaves, ranges, savedPosition, ret, walk, disabled, cursorPosition, editor>>

InitCount ==
    /\ InitStudio /\ InitEditor /\ mounted = TRUE /\ focused = FALSE
    /\ leaves = <<>>
    /\ ranges = <<>>
    /\ savedPosition = Null
    /\ ret = Undefined
    /\ op = [name |-> "init"]
    /\ walk = <<>>
    /\ disabled = FALSE

NextCount == \E newContent \in CountTexts : HandleContentChange(newContent)

SpecCount == InitCount /\ [][NextCount]_vars

----------------------------------------------------------------------------
(* The Editor inside WritingStudio: effects, events and deferred callbacks *)

\* const sampleText of insertSampleText
sampleText ==
    <<"T", "h", "e", " ", "o", "l", "d", " ", "c", "a", "s", "t", "l", "e", " ", "s", "t", "o",
      "o", "d", " ", "m", "a", "j", "e", "s", "t", "i", "c", "a", "l", "l", "y", " ", "o", "n",
      " ", "t", "h", "e", " ", "h", "i", "l", "l", ",", " ", "i", "t", "s", " ", "w", "e", "a",
      "t", "h", "e", "r", "e", "d", " ", "s", "t", "o", "n", "e", "s", " ", "t", "e", "l", "l",
      "i", "n", "g", " ", "s", "t", "o", "r", "i", "e", "s", " ", "o", "f", " ", "c", "e", "n",
      "t", "u", "r", "i", "e", "s", " ", "p", "a", "s", "t", ".", " ", "B", "e", "l", "o", "w",
      ",", " ", "t", "h", "e", " ", "v", "i", "l", "l", "a", "g", "e", " ", "n", "e", "s", "t",
      "l", "e", "d", " ", "i", "n", " ", "t", "h", "e", " ", "v", "a", "l", "l", "e", "y", ",",
      " ", "s", "m", "o", "k", "e", " ", "r", "i", "s", "i", "n", "g", " ", "f", "r", "o", "m",
      " ", "c", "h", "i", "m", "n", "e", "y", "s", " ", "a", "s", " ", "t", "h", "e", " ", "s",
      "u", "n", " ", "b", "e", "g", "a", "n", " ", "t", "o", " ", "s", "e", "t", " ", "b", "e",
      "h", "i", "n", "d", " ", "t", "h", "e", " ", "m", "o", "u", "n", "t", "a", "i", "n", "s",
      ".", LF, LF, "T", "h", "i", "s", " ", "i", "s", " ", "a", " ", "s", "a", "m", "p", "l",
      "e", " ", "t", "e", "x", "t", " ", "t", "o", " ", "d", "e", "m", "o", "n", "s", "t", "r",
      "a", "t", "e", " ", "t", "h", "e", " ", "C", "o", "n", "t", "e", "n", "t", "E", "d", "i",
      "t", "a", "b", "l", "e", " ", "e", "d", "i", "t", "o", "r", " ", "w", "i", "t", "h", " ",
      "p", "r", "o", "p", "e", "r", " ", "c", "u", "r", "s", "o", "r", " ", "m", "a", "n", "a",
      "g", "e", "m", "e", "n", "t", ",", " ", "k", "e", "y", "b", "o", "a", "r", "d", " ", "n",
      "a", "v", "i", "g", "a", "t", "i", "o", "n", ",", " ", "a", "n", "d", " ", "t", "e", "x",
      "t", " ", "f", "o", "r", "m", "a", "t", "t", "i", "n", "g", " ", "f", "e", "a", "t", "u",
      "r", "e", "s", ".", LF, LF, "T", "r", "y", " ", "u", "s", "i", "n", "g", " ", "C", "t",
      "r", "l", "+", "H", "o", "m", "e", " ", "t", "o", " ", "j", "u", "m", "p", " ", "t", "o",
      " ", "t", "h", "e", " ", "b", "e", "g", "i", "n", "n", "i", "n", "g", ",", " ", "C", "t",
      "r", "l", "+", "E", "n", "d", " ", "t", "o", " ", "j", "u", "m", "p", " ", "t", "o", " ",
      "t", "h", "e", " ", "e", "n", "d", ",", " ", "a", "n", "d", " ", "C", "t", "r", "l", "+",
      "A", "r", "r", "o", "w", " ", "k", "e", "y", "s", " ", "f", "o", "r", " ", "w", "o", "r",
      "d", " ", "n", "a", "v", "i", "g", "a", "t", "i", "o", "n", ".">>

\* A value of the history variable origin: the caret was at this offset.
Known(offset) == [kind |-> "known", offset |-> offset]

\* What the effects and the deferred callbacks of the editor read and change.
Dom ==
    [leaves |-> leaves, ranges |-> ranges, savedPosition |-> savedPosition,
     focused |-> focused, frames |-> frames, timers |-> timers, origin |-> origin]

Apply(d) ==
    /\ leaves' = d.leaves
    /\ ranges' = d.ranges
    /\ savedPosition' = d.savedPosition
    /\ focused' = d.focused
    /\ frames' = d.frames
    /\ timers' = d.timers
    /\ origin' = d.origin

\* editorRef.current.focus(): nothing for the element that has the focus;
\* otherwise the element gets it, and the browser leaves the selection alone or
\* (place) puts a caret at the start of the element.
Focus(d, place) ==
    IF d.focused
        THEN d
        ELSE [d EXCEPT !.focused = TRUE,
                       !.ranges = IF place THEN <<Caret(Element, 0)>> ELSE d.ranges]

\* The choices a browser has in focus().
Places(d) == IF d.focused THEN {FALSE} ELSE BOOLEAN

\* The content synchronisation effect doing nothing at all.
SyncEffectNever(d, c, composing) == d

\* The content synchronisation effect without the comparison of the texts: it
\* writes the content prop into the element whenever it runs.
SyncEffectAlways(d, c, composing) ==
    IF composing
        THEN d
        ELSE [d EXCEPT !.savedPosition =
                           IF d.focused THEN saveCursorPosition(d.leaves, d.ranges) ELSE @,
                       !.origin =
                           IF d.focused /\ d.frames = 0 /\ Len(d.ranges) > 0
                               THEN Known(getCursorPosition(d.leaves, d.ranges).offset) ELSE @,
                       !.leaves = TextNodes(c),
                       !.ranges = [i \in 1..Len(d.ranges) |-> Caret(Element, 0)],
                       !.frames = IF d.focused THEN @ + 1 ELSE @]

\* The content synchronisation effect for the content prop c.  Replacing the
\* children of the element moves every boundary point of the selection to
\* (element, 0).
SyncEffect(d, c, composing) ==
    IF composing \/ getTextContent(d.leaves) = c
        THEN d
        ELSE [d EXCEPT !.savedPosition =
                           IF d.focused THEN saveCursorPosition(d.leaves, d.ranges) ELSE @,
                       !.origin =
                           IF d.focused /\ d.frames = 0 /\ Len(d.ranges) > 0
                               THEN Known(getCursorPosition(d.leaves, d.ranges).offset) ELSE @,
                       !.leaves = TextNodes(c),
                       !.ranges = [i \in 1..Len(d.ranges) |-> Caret(Element, 0)],
                       !.frames = IF d.focused THEN @ + 1 ELSE @]

\* The auto-focus effect without the test of the disabled prop.
AutoFocusEffectUnguarded(d, c, place) ==
    LET f == Focus(d, place)
    IN  IF Len(c) > 0 THEN [f EXCEPT !.timers = Append(@, Len(c))] ELSE f

\* The auto-focus effect for the content prop c (autoFocus is true).
AutoFocusEffect(d, c, place) ==
    IF disabled
        THEN d
        ELSE LET f == Focus(d, place)
             IN  IF Len(c) > 0 THEN [f EXCEPT !.timers = Append(@, Len(c))] ELSE f

\* The effects React runs after a render in which the content prop went from
\* old to new: each effect whose dependencies changed, in the order of the
\* source.  focusStep says that the auto-focus effect called focus().
Effects(d, old, new, place) ==
    LET d1 == IF old # new THEN SyncEffect(d, new, isComposing) ELSE d
        rerun == Len(old) # Len(new)
    IN  [dom |-> IF rerun THEN AutoFocusEffect(d1, new, place) ELSE d1,
         focusStep |-> rerun /\ ~disabled]

\* const showPlaceholder = content.trim() === ""
showPlaceholder(c) == Trim(c) = <<>>

\* The page is rendered: both effects run for the first time.
Mount ==
    /\ ~mounted
    /\ mounted' = TRUE
    /\ \E place \in Places(Dom) :
           Apply(AutoFocusEffect(SyncEffect(Dom, contentState, isComposing),
                                 contentState, place))
    /\ op' = [name |-> "mount", focusStep |-> ~disabled]
    /\ UNCHANGED <<ret, walk, disabled, studio, isComposing>>

\* handleInput calling onCursorChange in front of onChange.
NotificationsCursorFirst(ls, rs, supplied) ==
    (IF supplied
         THEN <<[fn |-> "onCursorChange", arg |-> getCursorPosition(ls, rs)]>>
         ELSE <<>>)
        \o <<[fn |-> "onChange", arg |-> getTextContent(ls)]>>

\* The calls handleInput makes on an enabled editor, in their order: onChange
\* with the text of the element, then onCursorChange, if the parent supplied
\* it, with what getCursor() returns.
Notifications(ls, rs, supplied) ==
    <<[fn |-> "onChange", arg |-> getTextContent(ls)]>>
        \o (IF supplied
                THEN <<[fn |-> "onCursorChange", arg |-> getCursorPosition(ls, rs)]>>
                ELSE <<>>)

\* handleInput on the editor in the state d, with the render that follows; o
\* holds the name of the event and what else is recorded of it, calls the
\* calls of the two callbacks.  onChange is handleContentChange and
\* onCursorChange, where the parent supplied it, is handleCursorChange.  A
\* disabled editor returns at once.
HandleInputWith(d, o, supplied) ==
    IF disabled
        THEN /\ op' = o @@ [focusStep |-> FALSE, calls |-> <<>>, supplied |-> supplied]
             /\ Apply(d)
             /\ UNCHANGED <<ret, walk, disabled, studio, mounted, isComposing>>
        ELSE LET calls == Notifications(d.leaves, d.ranges, supplied)
                 changes == SelectSeq(calls, LAMBDA c : c.fn = "onChange")
                 cursors == SelectSeq(calls, LAMBDA c : c.fn = "onCursorChange")
                 newContent == changes[Len(changes)].arg
                 s == handleContentChange(newContent)
             IN  /\ contentState' = s.content
                 /\ wordCount' = s.wordCount
                 /\ charCount' = s.charCount
                 /\ cursorPosition' =
                        IF cursors = <<>> THEN cursorPosition ELSE cursors[Len(cursors)].arg
                 /\ \E place \in Places(d) :
                        LET e == Effects(d, contentState, newContent, place)
                        IN  /\ Apply(e.dom)
                            /\ op' = o @@ [focusStep |-> e.focusStep, calls |-> calls,
                                            supplied |-> supplied]
                 /\ UNCHANGED <<ret, walk, disabled, mounted, isComposing>>

\* handleInput under WritingStudio, which supplies onCursorChange.
HandleInput(d, o) == HandleInputWith(d, o, TRUE)

\* The pending callbacks and the text nodes stay within the bounds.
Room == frames' <= MaxFrames /\ Len(timers') <= MaxTimers /\ Len(leaves') <= MaxLeaves

\* The text nodes and the caret after the browser inserted the character c at
\* the caret r: into the text node that holds the caret, else into the text node
\* in front of the caret, else into the first one, else into a new one.
InsertChar(ls, r, c) ==
    LET k == IF r.sc # Element THEN r.sc ELSE IF r.so > 0 THEN r.so ELSE 1
        at == IF r.sc # Element THEN r.so ELSE IF r.so > 0 THEN Len(ls[k]) ELSE 0
    IN  IF ls = <<>>
            THEN [leaves |-> <<<<c>>>>, ranges |-> <<Caret(1, 1)>>]
            ELSE [leaves |-> [ls EXCEPT ![k] = SubSeq(@, 1, at) \o <<c>> \o SubSeq(@, at + 1, Len(@))],
                  ranges |-> <<Caret(k, at + 1)>>]

\* The user types the character c at the caret: the browser changes the text and
\* fires the input event.
TypeChar(c) ==
    /\ mounted /\ focused /\ ~disabled
    /\ Len(ranges) = 1 /\ ranges[1] = Caret(ranges[1].sc, ranges[1].so)
    /\ Len(getTextContent(leaves)) < MaxContent
    /\ LET t == InsertChar(leaves, ranges[1], c)
       IN  HandleInput([Dom EXCEPT !.leaves = t.leaves, !.ranges = t.ranges], [name |-> "type"])
    /\ Room

\* An input event reaches the editor without a change of its text.
InputEvent ==
    /\ mounted /\ ~disabled
    /\ HandleInput(Dom, [name |-> "input"])
    /\ Room

\* An input event reaches the editor, enabled or not, of a parent that supplied
\* onCursorChange or left it out.
InputEventWith(supplied) ==
    /\ mounted
    /\ HandleInputWith(Dom, [name |-> "input"], supplied)
    /\ Room

\* A click on a button: setContent(c) and the render that follows.  The click
\* leaves the focus where it is (keep) or takes it from the editor.
SetContent(c, keep, name) ==
    /\ mounted
    /\ contentState' = c
    /\ \E place \in Places([Dom EXCEPT !.focused = focused /\ keep]) :
           LET e == Effects([Dom EXCEPT !.focused = focused /\ keep], contentState, c, place)
           IN  /\ Apply(e.dom)
               /\ op' = [name |-> name, focusStep |-> e.focusStep]
    /\ UNCHANGED <<ret, walk, disabled, wordCount, charCount, cursorPosition, mounted, isComposing>>
    /\ Room

\* The sample text as far as it is inserted.
SampleShown == SubSeq(sampleText, 1, MaxSample)

\* insertSampleText
InsertSampleText(keep) == SetContent(SampleShown, keep, "sample")

\* clearEditor
ClearEditor(keep) == SetContent(<<>>, keep, "clear")

\* The points a click into the editor reaches: the points inside its text
\* nodes, (element, 0) when it has none.
ClickPoints(ls) == IF ls = <<>> THEN {<<Element, 0>>} ELSE {p \in Points(ls) : p[1] # Element}

\* The user clicks into the editor: it gets the focus and the caret.
ClickEditor(p) ==
    /\ mounted /\ ~disabled
    /\ focused' = TRUE
    /\ ranges' = <<Caret(p[1], p[2])>>
    /\ op' = [name |-> "click"]
    /\ UNCHANGED <<leaves, savedPosition, ret, walk, disabled, studio, mounted, isComposing,
                   frames, timers, origin>>

\* The user drags from the point p to the point q behind it: the editor gets the
\* focus and the selection is the range between them.
SelectText(p, q) ==
    /\ mounted /\ ~disabled
    /\ Rank(leaves, p) < Rank(leaves, q)
    /\ focused' = TRUE
    /\ ranges' = <<[sc |-> p[1], so |-> p[2], ec |-> q[1], eo |-> q[2]]>>
    /\ op' = [name |-> "select"]
    /\ UNCHANGED <<leaves, savedPosition, ret, walk, disabled, studio, mounted, isComposing,
                   frames, timers, origin>>

\* EnterDom without range.deleteContents(): the line break goes in at the start
\* of the range and the selected text stays.
EnterDomKeepContents(ls, r) ==
    LET front == IF r.sc = Element
                     THEN SubSeq(ls, 1, r.so)
                     ELSE SubSeq(ls, 1, r.sc - 1) \o <<SubSeq(ls[r.sc], 1, r.so)>>
        behind == IF r.sc = Element
                      THEN SubSeq(ls, r.so + 1, Len(ls))
                      ELSE <<SubSeq(ls[r.sc], r.so + 1, Len(ls[r.sc]))>>
                               \o SubSeq(ls, r.sc + 1, Len(ls))
    IN  [leaves |-> front \o <<<<LF>>>> \o behind, at |-> Len(front) + 1]

\* range.deleteContents(); range.insertNode(lineBreak) for the range r: the text
\* nodes in front of the range (a start inside a text node splits it), the new
\* "\n" node, the text nodes behind the range; at is the index of the new node.
EnterDom(ls, r) ==
    LET front == IF r.sc = Element
                     THEN SubSeq(ls, 1, r.so)
                     ELSE SubSeq(ls, 1, r.sc - 1) \o <<SubSeq(ls[r.sc], 1, r.so)>>
        behind == IF r.ec = Element
                      THEN SubSeq(ls, r.eo + 1, Len(ls))
                      ELSE <<SubSeq(ls[r.ec], r.eo + 1, Len(ls[r.ec]))>>
                               \o SubSeq(ls, r.ec + 1, Len(ls))
    IN  [leaves |-> front \o <<<<LF>>>> \o behind, at |-> Len(front) + 1]

\* handleKeyDown, Enter without Shift: the line break replaces the selected
\* range, the caret goes behind it (range.setStartAfter), and the input event
\* the handler dispatches runs handleInput.  The record op keeps the text and
\* the offsets of the two ends of the range before the key press.
EnterKey ==
    /\ mounted
    /\ IF ~disabled /\ Len(ranges) > 0
           THEN LET r == ranges[1]
                    t == EnterDom(leaves, r)
                IN  /\ Len(getTextContent(leaves)) <= MaxContent
                    /\ HandleInput([Dom EXCEPT !.leaves = t.leaves,
                                                !.ranges = <<Caret(Element, t.at)>>],
                                    [name |-> "Enter", handled |-> TRUE,
                                     text |-> getTextContent(leaves),
                                     start |-> Len(TextBefore(leaves, r.sc, r.so)),
                                     end |-> Len(TextBefore(leaves, r.ec, r.eo))])
           ELSE /\ op' = [name |-> "Enter", handled |-> FALSE, focusStep |-> FALSE]
                /\ UNCHANGED <<leaves, ranges, savedPosition, ret, walk, disabled, studio, editor>>
    /\ Room

\* The user presses Enter in the editor that has the focus.
PressEnter == focused /\ EnterKey

\* handleKeyDown, Ctrl/Meta + Home: the caret goes to (element, 0).
CtrlHome ==
    /\ ranges' = IF disabled THEN ranges ELSE <<Caret(Element, 0)>>
    /\ op' = [name |-> "Home", handled |-> ~disabled]
    /\ UNCHANGED <<leaves, savedPosition, ret, walk, disabled, studio, editor>>

\* handleKeyDown, Ctrl/Meta + End: range.selectNodeContents(element) collapsed
\* to its end, the point behind the last child of the element.
CtrlEnd ==
    /\ ranges' = IF disabled THEN ranges ELSE <<Caret(Element, Len(leaves))>>
    /\ op' = [name |-> "End", handled |-> ~disabled]
    /\ UNCHANGED <<leaves, savedPosition, ret, walk, disabled, studio, editor>>

\* The user selects text of a disabled editor, from the point p to the point q:
\* the element is not editable and does not get the focus.
SelectDisabled(p, q) ==
    /\ mounted /\ disabled
    /\ Rank(leaves, p) <= Rank(leaves, q)
    /\ ranges' = <<[sc |-> p[1], so |-> p[2], ec |-> q[1], eo |-> q[2]]>>
    /\ op' = [name |-> "select"]
    /\ UNCHANGED <<leaves, savedPosition, ret, walk, disabled, studio, editor>>

\* A pending requestAnimationFrame callback runs: restoreCursor().
RunFrame ==
    /\ frames > 0
    /\ frames' = frames - 1
    /\ origin' = IF frames' = 0 THEN Null ELSE origin
    /\ LET r == IF mounted
                    THEN restoreCursorPosition(leaves, ranges, savedPosition)
                    ELSE NotApplied(ranges)
       IN  /\ ranges' = r.ranges
           /\ op' = [name |-> "frame", threw |-> r.threw, origin |-> origin]
    /\ UNCHANGED <<leaves, savedPosition, ret, walk, disabled, studio, mounted, focused,
                   isComposing, timers>>

\* The oldest pending setTimeout callback runs:
\* setCursorAtOffset(editorRef.current, content.length) with the length it captured.
RunTimer ==
    /\ timers # <<>>
    /\ timers' = Tail(timers)
    /\ LET r == IF mounted
                    THEN setCursorAtOffset(leaves, ranges, Head(timers))
                    ELSE NotApplied(ranges)
       IN  /\ ranges' = r.ranges
           /\ op' = [name |-> "timer", length |-> Head(timers), threw |-> r.threw]
    /\ UNCHANGED <<leaves, savedPosition, ret, walk, disabled, studio, mounted, focused,
                   isComposing, frames, origin>>

\* The page before its first render.
InitPage ==
    /\ InitStudio /\ InitEditor /\ mounted = FALSE /\ focused = FALSE
    /\ leaves = <<>>
    /\ ranges = <<>>
    /\ savedPosition = Null
    /\ ret = Undefined
    /\ op = [name |-> "init"]
    /\ walk = <<>>
    /\ disabled = FALSE

\* The page of a user who types, clicks into the text and uses the two buttons.
NextStudio ==
    \/ Mount
    \/ TypeChar("a")
    \/ InputEvent
    \/ \E keep \in BOOLEAN : InsertSampleText(keep)
    \/ \E keep \in BOOLEAN : ClearEditor(keep)
    \/ \E p \in ClickPoints(leaves) : ClickEditor(p)
    \/ RunFrame
    \/ RunTimer

SpecStudio == InitPage /\ [][NextStudio]_vars

\* The page of a user who types, selects and presses keys, and leaves the
\* buttons alone: the content prop changes through onChange only.
NextTyping ==
    \/ Mount
    \/ TypeChar("a")
    \/ InputEvent
    \/ \E p \in ClickPoints(leaves) : ClickEditor(p)
    \/ \E p, q \in ClickPoints(leaves) : SelectText(p, q)
    \/ mounted /\ focused /\ CtrlArrowUp
    \/ mounted /\ focused /\ ArrowDownKey /\ UNCHANGED walk
    \/ PressEnter
    \/ RunTimer

SpecTyping == InitPage /\ [][NextTyping]_vars

\* handleCompositionStart: setIsComposing(true) and the render that follows, in
\* which the content synchronisation effect runs again (isComposing is one of
\* its dependencies).  An input method composes in the editor that has the focus.
CompositionStart ==
    /\ mounted /\ focused /\ ~disabled /\ ~isComposing
    /\ isComposing' = TRUE
    /\ Apply(SyncEffect(Dom, contentState, TRUE))
    /\ op' = [name |-> "compositionStart"]
    /\ UNCHANGED <<ret, walk, disabled, studio, mounted>>

\* handleCompositionEnd: setIsComposing(false) and the render that follows.
CompositionEnd ==
    /\ mounted /\ isComposing
    /\ isComposing' = FALSE
    /\ Apply(SyncEffect(Dom, contentState, FALSE))
    /\ op' = [name |-> "compositionEnd"]
    /\ UNCHANGED <<ret, walk, disabled, studio, mounted>>
    /\ Room

\* The page with an editor that is enabled or disabled.
InitKeys ==
    /\ InitStudio /\ InitEditor /\ mounted = FALSE /\ focused = FALSE
    /\ leaves = <<>>
    /\ ranges = <<>>
    /\ savedPosition = Null
    /\ ret = Undefined
    /\ op = [name |-> "init"]
    /\ walk = <<>>
    /\ disabled \in BOOLEAN

\* A key press reaches handleKeyDown: the editor has the focus, or the event
\* is dispatched to a disabled one.
KeyDown == mounted /\ (focused \/ disabled)

\* The editor under a parent that may have disabled it and may have left out
\* onCursorChange: input events and the keys that handleKeyDown handles.
NextKeys ==
    \/ Mount
    \/ TypeChar("a")
    \/ \E supplied \in BOOLEAN : InputEventWith(supplied)
    \/ InsertSampleText(FALSE)
    \/ \E p \in ClickPoints(leaves) : ClickEditor(p)
    \/ \E p, q \in ClickPoints(leaves) : SelectDisabled(p, q)
    \/ KeyDown /\ CtrlHome
    \/ KeyDown /\ CtrlEnd
    \/ KeyDown /\ CtrlArrowUp
    \/ KeyDown /\ ArrowDownKey /\ UNCHANGED walk
    \/ KeyDown /\ EnterKey
    \/ RunTimer

SpecKeys == InitKeys /\ [][NextKeys]_vars

\* The page of a user who types with an input method and uses the two buttons.
\* A click that takes the focus from the editor ends the composition first.
NextCompose ==
    \/ Mount
    \/ TypeChar("a")
    \/ \E keep \in BOOLEAN : (keep \/ ~isComposing) /\ InsertSampleText(keep)
    \/ \E keep \in BOOLEAN : (keep \/ ~isComposing) /\ ClearEditor(keep)
    \/ \E p \in ClickPoints(leaves) : ClickEditor(p)
    \/ CompositionStart
    \/ CompositionEnd
    \/ RunFrame
    \/ RunTimer

SpecCompose == InitPage /\ [][NextCompose]_vars

----------------------------------------------------------------------------
(* Properties of the offset <-> position translation (specification Spec) *)

TotalLength == Len(Concat(leaves))

IsSet == op.name \in {"setCursorPosition", "setCursorAtOffset"}

RECURSIVE SumLengths(_, _)
\* The summed lengths of the first n text nodes.
SumLengths(ls, n) == IF n = 0 THEN 0 ELSE SumLengths(ls, n - 1) + Len(ls[n])

\* The text nodes whose inclusive cumulative length reaches the offset.
Reaching(ls, offset) == {k \in 1..Len(ls) : SumLengths(ls, k) >= offset}

\* The first of them in document order.
FirstReaching(ls, offset) ==
    CHOOSE k \in Reaching(ls, offset) : \A j \in Reaching(ls, offset) : k <= j

\* C1: after setCursorPosition(T, o) with 0 <= o <= totalLength(T), reading the
\* caret back with getCursorPosition(T) yields exactly o, also on the boundary
\* between two text nodes.
C1_RoundTrip ==
    (op.name = "setCursorPosition" /\ op.offset \in 0..TotalLength)
        => /\ getCursorPosition(leaves, ranges) # Null
           /\ getCursorPosition(leaves, ranges).offset = op.offset

\* C1 witness: the caret was set on the boundary between two non-empty text nodes
\* and reads back as that offset.
C1_Witness ==
    /\ op.name = "setCursorPosition"
    /\ Len(leaves) >= 2
    /\ Len(leaves[1]) > 0 /\ Len(leaves[2]) > 0
    /\ op.offset = Len(leaves[1])
    /\ getCursorPosition(leaves, ranges) = CursorPosition(op.offset, 1)

\* C2 (as claimed): with at least one text node, positioning at an offset past
\* the total length leaves the caret where positioning at the total length
\* leaves it, for setCursorPosition and for setCursorAtOffset.
C2_Clamping ==
    (IsSet /\ Len(leaves) >= 1 /\ op.offset > TotalLength)
        => ranges = setCursorPosition(leaves, ranges, TotalLength).ranges

\* C3: for a non-negative offset that some text node reaches, the caret is put
\* in the first text node whose inclusive cumulative length is >= the offset,
\* at local offset = offset - (length before that node); on a boundary that is
\* the end of the earlier node, not offset 0 of the next.
C3_TieBreak ==
    (IsSet /\ op.offset >= 0 /\ Reaching(leaves, op.offset) # {})
        => LET k == FirstReaching(leaves, op.offset)
           IN  ranges = <<Caret(k, op.offset - SumLengths(leaves, k - 1))>>

\* C3 witness: setCursorAtOffset at the cumulative end of a non-empty text node
\* that another non-empty node follows put the caret at the end of the earlier.
C3_Witness ==
    /\ op.name = "setCursorAtOffset"
    /\ \E k \in 1..Len(leaves) - 1 :
           /\ Len(leaves[k]) > 0 /\ Len(leaves[k + 1]) > 0
           /\ op.offset = SumLengths(leaves, k)
           /\ ranges = <<Caret(k, Len(leaves[k]))>>

\* C4 (as claimed): with no text node, positioning at offset 0 places the caret at
\* (element, 0), through setCursorPosition and through setCursorAtOffset.
C4_EmptySurfaceBoth ==
    (IsSet /\ leaves = <<>> /\ op.offset = 0) => ranges = <<Caret(Element, 0)>>

\* C4 (amended): with no text node, setCursorPosition at offset 0 places the caret
\* at (element, 0); setCursorAtOffset finds no text node and leaves the selection
\* as it was.
C4_EmptySurface ==
    [][/\ (leaves = <<>> /\ op'.name = "setCursorPosition" /\ op'.offset = 0)
           => ranges' = <<Caret(Element, 0)>>
       /\ (leaves = <<>> /\ op'.name = "setCursorAtOffset")
           => ranges' = ranges]_vars

\* C4 witness: on the empty element setCursorPosition at offset 0 has placed the
\* caret at (element, 0).
C4_Witness ==
    /\ leaves = <<>>
    /\ op.name = "setCursorPosition" /\ op.offset = 0
    /\ ranges = <<Caret(Element, 0)>>

\* C5: with a selection, getCursorPosition returns the summed lengths of the
\* text nodes strictly before the anchor plus, for an anchor in a text node, the
\* offset in it; the result lies in 0 .. total length.
C5_OffsetValue ==
    (op.name = "getCursorPosition" /\ Len(ranges) > 0)
        => LET anchor == ranges[1]
               before == IF anchor.sc = Element
                             THEN SumLengths(leaves, anchor.so)
                             ELSE SumLengths(leaves, anchor.sc - 1) + anchor.so
           IN  /\ ret = CursorPosition(before, anchor.sc)
               /\ ret.offset \in 0..TotalLength

\* C5 witness: getCursorPosition was read with a range that starts inside a later
\* text node and ends elsewhere.
C5_Witness ==
    /\ op.name = "getCursorPosition"
    /\ Len(ranges) > 0
    /\ ranges[1].sc >= 2 /\ ranges[1].so >= 1
    /\ ranges[1].ec # ranges[1].sc
    /\ ret.kind = "position" /\ ret.offset >= 2

\* C6: without a selection (rangeCount = 0) getCursorPosition returns null, not
\* an offset, and the hook's getCursor and saveCursor pass that null on.
C6_NoSelection ==
    Len(ranges) = 0
        => /\ op.name \in {"getCursorPosition", "getCursor"} => ret = Null
           /\ op.name = "saveCursor" => savedPosition = Null

\* C6 witness: saveCursor ran without a selection and saved null.
C6_Witness ==
    /\ op.name = "saveCursor"
    /\ Len(ranges) = 0
    /\ savedPosition = Null

----------------------------------------------------------------------------
(* Properties of paragraph navigation (specification SpecNav) *)

NavText == Concat(leaves)

IsNav == op.name \in {"ArrowUp", "ArrowDown"} /\ op.handled

IsLF(t, i) == i \in 1..Len(t) /\ t[i] = LF

\* The places (1-based) where a run of line breaks begins, and the run's length.
RunStarts(t) == {i \in 1..Len(t) : IsLF(t, i) /\ ~IsLF(t, i - 1)}

RunLength(t, i) == CHOOSE n \in 1..Len(t) : (\A j \in i..i + n - 1 : IsLF(t, j)) /\ ~IsLF(t, i + n)

\* The double line breaks of a text.
Breaks(t) == {i \in RunStarts(t) : RunLength(t, i) = 2}

\* A text made of paragraphs separated by double line breaks: it begins and ends
\* inside a paragraph and no run of line breaks is longer than two.
IsParagraphs(t) ==
    /\ Len(t) > 0
    /\ t[1] # LF /\ t[Len(t)] # LF
    /\ \A i \in RunStarts(t) : RunLength(t, i) <= 2

ParagraphCount(t) == 1 + Cardinality(Breaks(t))

\* Offsets of the paragraph starts and of the paragraph ends.
ParagraphStarts(t) == {0} \cup {i + 1 : i \in Breaks(t)}

ParagraphEnds(t) == {i - 1 : i \in Breaks(t)} \cup {Len(t)}

RECURSIVE Ascending(_)
\* The members of a set of numbers in increasing order.
Ascending(S) ==
    IF S = {}
        THEN <<>>
        ELSE LET m == CHOOSE x \in S : \A y \in S : x <= y
             IN  <<m>> \o Ascending(S \ {m})

\* C7 (as claimed): a paragraph step targets an offset different from the one
\* it starts at, unless it starts at the end of the text (forward) or at its
\* start (backward).
C7_Progress ==
    IsNav
        => \/ op.target # op.from
           \/ op.name = "ArrowDown" /\ op.from = Len(NavText)
           \/ op.name = "ArrowUp" /\ op.from = 0

C10_ScenarioBackward0 ==
    (NavText = ScenarioA /\ op.name = "ArrowUp" /\ op.handled /\ op.from = 12)
        => op.target = 0

\* C10 (amended): in "Hello\n\nWorld" the backward step from 12 targets 7, the
\* start of "World".
C10_ScenarioBackward ==
    (NavText = ScenarioA /\ op.name = "ArrowUp" /\ op.handled /\ op.from = 12)
        => op.target = 7

\* C10 witness: the backward step from the end of "Hello\n\nWorld" has moved the
\* caret to offset 7.
C10_Witness ==
    /\ NavText = ScenarioA
    /\ op.name = "ArrowUp" /\ op.handled /\ op.from = 12 /\ op.target = 7
    /\ getCursorPosition(leaves, ranges).offset = 7

\* Offsets immediately following two consecutive line breaks.
AfterDouble(t) == {p \in 2..Len(t) : IsLF(t, p) /\ IsLF(t, p - 1)}

\* Offsets of a line break that another line break follows or that ends the text.
BreakEnds(t) == {p \in 0..Len(t) - 1 : IsLF(t, p + 1) /\ (p + 1 = Len(t) \/ IsLF(t, p + 2))}

\* Offset 1 of a text that begins with a line break.
LeadingBreak(t) == IF IsLF(t, 1) THEN {1} ELSE {}

C12_SingleBreaks ==
    (IsNav /\ op.stop >= 0)
        => /\ IsLF(NavText, op.stop + 1)
           /\ IsLF(NavText, op.stop) \/ IsLF(NavText, op.stop + 2)

\* C13: after setCursorPosition or setCursorAtOffset applied a position (the try
\* block was reached and setStart did not throw), the selection holds exactly one
\* range and that range is collapsed.
C13_Caret ==
    (/\ IsSet /\ ~op.threw
     /\ op.name = "setCursorAtOffset" => Reaching(leaves, op.offset) # {})
        => /\ Len(ranges) = 1
           /\ ranges[1].sc = ranges[1].ec /\ ranges[1].so = ranges[1].eo

\* C13 witness: setCursorAtOffset has put a caret inside a text node that is not
\* the first one.
C13_Witness ==
    /\ op.name = "setCursorAtOffset" /\ ~op.threw
    /\ Len(ranges) = 1 /\ ranges[1].sc > 1 /\ ranges[1].so > 0
    /\ ranges[1] = Caret(ranges[1].sc, ranges[1].so)

\* C14: when range.setStart throws, setCursorPosition and setCursorAtOffset log
\* one warning and return; no error leaves the function and there is no second
\* attempt.
C14_Swallowed ==
    IsSet => /\ ~op.raised
             /\ op.warnings = (IF op.threw THEN 1 ELSE 0)

\* C14 witness: setStart threw for the offset -1, and one warning was logged.
C14_Witness ==
    /\ IsSet /\ op.offset = 0 - 1 /\ op.threw /\ op.warnings = 1 /\ ~op.raised

\* The starts of the maximal runs of characters that are not white space.
WordStarts(t) ==
    {i \in 1..Len(t) : t[i] \notin WhiteSpace /\ (i = 1 \/ t[i - 1] \in WhiteSpace)}

\* C15: for every content handed to handleContentChange the word count is the
\* number of maximal runs of non-white-space characters (0 for an empty or
\* all-white-space content, 3 for "Hello world test") and the character count is
\* the length of the content (16 for "Hello world test").
C15_WordCount ==
    op.name = "handleContentChange"
        => /\ contentState = op.newContent
           /\ wordCount = Cardinality(WordStarts(contentState))
           /\ charCount = Len(contentState)
           /\ (\A i \in 1..Len(contentState) : contentState[i] \in WhiteSpace) => wordCount = 0
           /\ contentState = HelloWorldTest => wordCount = 3 /\ charCount = 16

\* C15 witness: a content that begins with white space and has a run of two
\* white-space characters inside has been counted as two words.
C15_Witness ==
    /\ op.name = "handleContentChange"
    /\ contentState = <<LF, "a", " ", LF, "a">>
    /\ wordCount = 2 /\ charCount = 5

\* While the selection has no range the panel shows the dash.
UnknownShownAsDash == Len(ranges) = 0 => PositionShown(cursorPosition) = Dash

\* A paragraph key pressed while the selection has no range moves nothing.
UnknownNotMoved ==
    (Len(ranges) = 0 /\ op'.name \in {"ArrowUp", "ArrowDown"})
        => ranges' = ranges /\ ~op'.handled

\* C16: in every state in which getCursorPosition reports no selection the
\* statistics panel shows the dash, not a number, and Ctrl+ArrowUp and
\* Ctrl+ArrowDown pressed in such a state leave the selection as it is: offset
\* 0 is never put in the place of the unknown position.
C16_Unknown ==
    [][UnknownShownAsDash /\ UnknownShownAsDash' /\ UnknownNotMoved]_vars

\* C16 witness: an input event reached the editor while the selection had no
\* range; handleInput reported null and the panel shows the dash.
C16_Witness ==
    /\ op.name = "input" /\ Len(ranges) = 0
    /\ getCursorPosition(leaves, ranges) = Null
    /\ cursorPosition = Null /\ PositionShown(cursorPosition) = Dash

\* The operations that change the content: typing, a handled Enter, and the two
\* buttons.
ChangesContent ==
    \/ op.name \in {"type", "sample", "clear"}
    \/ op.name = "Enter" /\ op.handled

\* C17 (as claimed): after every operation that changes the content the word
\* count and the character count are those of the current content; after
\* Sample both are above zero.
C17_StatsFollow ==
    ChangesContent
        => /\ wordCount = Cardinality(WordStarts(contentState))
           /\ charCount = Len(contentState)
           /\ op.name = "sample" => wordCount > 0 /\ charCount > 0

\* C18 (as claimed): the auto-focus step runs when the editor mounts and in no
\* later render: no change of the content runs it again.
C18_MountOnly ==
    (op.name \in {"type", "input", "Enter", "sample", "clear"}) => ~op.focusStep

\* C19 (as claimed): when the last pending restore has run, the caret is at the
\* offset it had before the first content update of the batch, if the new text
\* is that long.
C19_Preserved ==
    (/\ op.name = "frame" /\ frames = 0
     /\ op.origin # Null /\ op.origin.offset <= Len(getTextContent(leaves)))
        => /\ Len(ranges) > 0
           /\ getCursorPosition(leaves, ranges).offset = op.origin.offset

\* C20: a handled Enter replaces the selected range with one line break: the
\* text is the old text in front of the range, "\n", and the old text behind
\* the range; the selection is one collapsed range right behind the line break;
\* and the content reported through onChange is that text.
C20_Enter ==
    (op.name = "Enter" /\ op.handled)
        => LET before == SubSeq(op.text, 1, op.start)
               after == SubSeq(op.text, op.end + 1, Len(op.text))
           IN  /\ getTextContent(leaves) = before \o <<LF>> \o after
               /\ Len(ranges) = 1
               /\ ranges[1].sc = ranges[1].ec /\ ranges[1].so = ranges[1].eo
               /\ getCursorPosition(leaves, ranges).offset = Len(before) + 1
               /\ contentState = getTextContent(leaves)

\* C20 witness: Enter has replaced a selected character that followed other
\* text.
C20_Witness ==
    /\ op.name = "Enter" /\ op.handled
    /\ 0 < op.start /\ op.start < op.end
    /\ getTextContent(leaves) = <<"a", LF>>
    /\ contentState = <<"a", LF>>

\* C25: for a non-negative target offset, the position setCursorPosition or
\* setCursorAtOffset hands to range.setStart has a local offset between 0 and
\* the length of the chosen node's text, 0 for the element itself, so that
\* Math.min leaves the value as it is.
C25_Valid ==
    (IsSet /\ op.offset >= 0 /\ op.handed.reached)
        => /\ 0 <= op.handed.local
           /\ op.handed.local <= TextLength(leaves, op.handed.node)
           /\ op.handed.node = Element => op.handed.local = 0
           /\ op.handed.clamped = op.handed.local

\* C25 witness: setCursorAtOffset has handed over the end of the third text
\* node, a local offset equal to the node's length.
C25_Witness ==
    /\ op.name = "setCursorAtOffset" /\ op.offset >= 0 /\ op.handed.reached
    /\ op.handed.node = 3 /\ op.handed.local = 1
    /\ op.handed.local = TextLength(leaves, op.handed.node)
    /\ ranges = <<Caret(3, 1)>>

\* C26: a call of either function, for an offset that some text node reaches
\* by the cumulative-length test, selects the text node and the local offset
\* the other function selects and has the same outcome; for an offset no text
\* node reaches, setCursorPosition puts the caret at (element, 0) and
\* setCursorAtOffset leaves the selection as it is.
C26_Agree ==
    [][op'.name \in {"setCursorPosition", "setCursorAtOffset"}
           => LET offset == op'.offset
                  a == setCursorPosition(leaves, ranges, offset)
                  b == setCursorAtOffset(leaves, ranges, offset)
              IN  /\ ranges' = (IF op'.name = "setCursorPosition" THEN a ELSE b).ranges
                  /\ IF Reaching(leaves, offset) # {}
                         THEN /\ WalkPosition(leaves, offset, 1, 0)
                                     = WalkAtOffset(leaves, offset, 1, 0)
                              /\ WalkPosition(leaves, offset, 1, 0).found
                              /\ a = b
                         ELSE /\ a.ranges = <<Caret(Element, 0)>>
                              /\ b = NotApplied(ranges)]_vars

\* C26 witness: setCursorPosition has put the caret at the end of the second
\* text node, where setCursorAtOffset puts it for the same offset.
C26_Witness ==
    /\ op.name = "setCursorPosition" /\ op.offset = 2
    /\ op.handed.node = 2 /\ op.handed.local = 1
    /\ WalkAtOffset(leaves, op.offset, 1, 0) = [found |-> TRUE, node |-> 2, offset |-> 1]
    /\ ranges = setCursorAtOffset(leaves, ranges, op.offset).ranges

\* C30: when range.setStart throws in setCursorPosition or setCursorAtOffset,
\* the selection keeps the ranges it had, their number and their boundary
\* points, and the text nodes of the element are what they were.
C30_Untouched ==
    [][(op'.name \in {"setCursorPosition", "setCursorAtOffset"} /\ op'.threw)
           => ranges' = ranges /\ leaves' = leaves]_vars

\* C30 witness: setStart threw in setCursorPosition while the selection held
\* two ranges, and it holds them still.
C30_Witness ==
    /\ op.name = "setCursorPosition" /\ op.threw
    /\ Len(leaves) = 2
    /\ ranges = <<Caret(Element, 0), Caret(Element, 2)>>

\* C27: the offset a paragraph step starts at lies between 0 and the text
\* length, and so does the target offset the handler computes, for Ctrl+ArrowUp
\* and for Ctrl+ArrowDown.
C27_InRange ==
    IsNav => /\ op.from \in 0..Len(NavText)
             /\ op.target \in 0..Len(NavText)

\* C27 witness: a backward step from the end of a text has targeted an offset
\* inside the text, and the caret is there.
C27_Witness ==
    /\ op.name = "ArrowUp" /\ op.handled
    /\ op.from = Len(NavText)
    /\ 0 < op.target /\ op.target < op.from
    /\ getCursorPosition(leaves, ranges).offset = op.target

\* C28: Ctrl+ArrowDown with the caret at the text length targets offset 0, and
\* Ctrl+ArrowUp with the caret at offset 0 targets the text length.
C28_Wrap ==
    IsNav => /\ (op.name = "ArrowDown" /\ op.from = Len(NavText)) => op.target = 0
             /\ (op.name = "ArrowUp" /\ op.from = 0) => op.target = Len(NavText)

\* C28 witness: a forward step from the end of a non-empty text has moved the
\* caret to offset 0.
C28_Witness ==
    /\ op.name = "ArrowDown" /\ op.handled
    /\ Len(NavText) > 0 /\ op.from = Len(NavText) /\ op.target = 0
    /\ getCursorPosition(leaves, ranges).offset = 0

\* The text of the editor element is the content state.
TextIsContent == getTextContent(leaves) = contentState

\* A text that is empty or holds white space only.
AllWhiteSpace(t) == \A i \in 1..Len(t) : t[i] \in WhiteSpace

\* C21: whenever no composition is in progress, the effects have left the text
\* of the mounted editor equal to the content state: the sample text after
\* Sample, the empty text after Clear; and the placeholder is shown exactly
\* when the content is empty or holds white space only.
C21_Converges ==
    /\ (mounted /\ ~isComposing) => TextIsContent
    /\ (op.name = "sample" /\ ~isComposing)
           => getTextContent(leaves) = SampleShown /\ ~showPlaceholder(contentState)
    /\ (op.name = "clear" /\ ~isComposing)
           => getTextContent(leaves) = <<>> /\ showPlaceholder(contentState)
    /\ showPlaceholder(contentState) <=> AllWhiteSpace(contentState)

\* C21 witness: Sample was clicked on a focused editor that held typed text;
\* the element holds the sample text and the restore of the caret is pending.
C21_Witness ==
    /\ op.name = "sample" /\ ~isComposing /\ focused
    /\ leaves = <<SampleShown>> /\ contentState = SampleShown
    /\ charCount > 0 /\ frames > 0

\* The events that can have changed the content prop.
ContentEvents == {"type", "input", "Enter", "sample", "clear"}

\* C23 (as claimed): while a composition is in progress, a change of the
\* content prop leaves the text of the element and the selection as they are,
\* in the render of the change and in the callback that render scheduled.
C23_Guard ==
    [][isComposing
           => /\ op'.name \in {"sample", "clear"}
                     => leaves' = leaves /\ ranges' = ranges
              /\ (/\ op'.name = "timer"
                  /\ op.name \in ContentEvents /\ op.focusStep
                  /\ Len(contentState) > 0 /\ Len(timers) = 1)
                     => leaves' = leaves /\ ranges' = ranges]_vars

\* C29: when the text of the element is the content prop at the time the
\* content synchronisation effect runs (after typed input echoed back through
\* onChange, after the start and the end of a composition), the effect leaves
\* the text nodes and the selection as the browser left them, saves no cursor
\* position and schedules no restore.
C29_NoOp ==
    [][LET d == IF op'.name = "type"
                    THEN InsertChar(leaves, ranges[1], "a")
                    ELSE [leaves |-> leaves, ranges |-> ranges]
       IN  (/\ op'.name \in {"type", "compositionStart", "compositionEnd"}
            /\ getTextContent(d.leaves) = contentState')
               => /\ leaves' = d.leaves
                  /\ ranges' = d.ranges
                  /\ savedPosition' = savedPosition
                  /\ frames' = frames]_vars

\* C29 witness: a character was typed while a saved position and a restore
\* were pending from an earlier Clear; both are as they were.
C29_Witness ==
    /\ op.name = "type"
    /\ leaves = <<<<"a">>>> /\ contentState = <<"a">>
    /\ ranges = <<Caret(1, 1)>>
    /\ savedPosition = CursorPosition(1, 1) /\ frames = 1

\* The text nodes and the selection the browser hands to handleInput with the
\* event of the given name: after the typed character, after the line break of
\* Enter, or as they are.
Edited(name) ==
    IF name = "type"
        THEN InsertChar(leaves, ranges[1], "a")
        ELSE IF name = "Enter"
                 THEN [leaves |-> EnterDom(leaves, ranges[1]).leaves,
                       ranges |-> <<Caret(Element, EnterDom(leaves, ranges[1]).at)>>]
                 ELSE [leaves |-> leaves, ranges |-> ranges]

\* The calls of the callback fn among the calls cs.
CallsOf(cs, fn) == SelectSeq(cs, LAMBDA c : c.fn = fn)

\* C22: for every input event on an enabled editor (typed input, the event
\* Enter dispatches, any other input event) the first call is onChange with the
\* whole text of the element, and it is the only call of onChange; a parent
\* that supplied onCursorChange gets one call of it, after onChange, with the
\* position getCursorPosition reports (null without a selection), and a parent
\* that did not gets none.
C22_Order ==
    [][(/\ ~disabled
        /\ op'.name \in {"type", "input", "Enter"}
        /\ op'.name = "Enter" => op'.handled)
           => LET d == Edited(op'.name)
                  calls == op'.calls
              IN  /\ Len(calls) >= 1
                  /\ calls[1].fn = "onChange"
                  /\ calls[1].arg = getTextContent(d.leaves)
                  /\ Len(CallsOf(calls, "onChange")) = 1
                  /\ Len(calls) = (IF op'.supplied THEN 2 ELSE 1)
                  /\ op'.supplied
                         => /\ calls[2].fn = "onCursorChange"
                            /\ calls[2].arg = getCursorPosition(d.leaves, d.ranges)
                            /\ cursorPosition' = calls[2].arg
                  /\ contentState' = calls[1].arg]_vars

\* C22 witness: a character typed in front of another was reported as the text
\* "aa" and then as the position at offset 1.
C22_Witness ==
    /\ op.name = "type" /\ ~disabled
    /\ op.calls = <<[fn |-> "onChange", arg |-> <<"a", "a">>],
                    [fn |-> "onCursorChange", arg |-> CursorPosition(1, 1)]>>
    /\ contentState = <<"a", "a">>
    /\ cursorPosition = CursorPosition(1, 1)

\* C24: on a disabled editor an input event and a press of Enter or of
\* Ctrl/Meta with Home, End, ArrowUp or ArrowDown call neither onChange nor
\* onCursorChange and leave the text nodes, the selection, the focus, the
\* pending callbacks and the parent's state as they are; and the auto-focus
\* step does not call focus().
C24_Inert ==
    [][disabled
           => /\ op'.name \in {"input", "Home", "End", "ArrowUp", "ArrowDown", "Enter"}
                     => /\ leaves' = leaves /\ ranges' = ranges
                        /\ UNCHANGED <<studio, focused, frames, timers, savedPosition>>
                        /\ op'.name = "input" => op'.calls = <<>>
                        /\ op'.name # "input" => ~op'.handled
              /\ op'.name \in {"mount", "sample", "input"}
                     => ~op'.focusStep /\ focused' = focused /\ timers' = timers]_vars

\* C24 witness: Enter reached a disabled editor whose text is selected; the
\* text, the selection and the parent's state are as they were.
C24_Witness ==
    /\ disabled /\ ~focused
    /\ op.name = "Enter" /\ ~op.handled
    /\ leaves = <<SampleShown>>
    /\ ranges = <<[sc |-> 1, so |-> 0, ec |-> 1, eo |-> Len(SampleShown)]>>
    /\ cursorPosition = Null /\ wordCount = 0

====
